---- MODULE Spec2Model ----
(***************************************************************************)
(* Amazon Reviews Management: the review pipeline of src/app.py            *)
(* (load_data, filter_data_by_sentiment, find_similar_words,               *)
(* generate_word_cloud, create_single_excel, clean_temp_files) and the     *)
(* Streamlit session of src/test.py (main).                                *)
(*                                                                         *)
(* A text is a sequence of one-character strings, a table (DataFrame) a    *)
(* sequence of rows [index, polarity, title, text], a directory a set of   *)
(* files [name, rows].                                                     *)
(***************************************************************************)
EXTENDS Integers, Sequences, FiniteSets, TLC

VARIABLES
    csv_files,          \* the rows of a.csv and b.csv, in that order
    session_state,      \* st.session_state: a function on the keys it holds
    temp_dir_exists,    \* os.path.exists('temp_excel')
    temp_files,         \* the files of temp_excel: [name, rows]
    last                \* the most recent call: its arguments and its outcome

vars == <<csv_files, session_state, temp_dir_exists, temp_files, last>>

----------------------------------------------------------------------------
(* Bounds of the model *)

\* a.csv holds 1..MaxRowsA rows and b.csv 1..MaxRowsB rows (neither file is
\* empty), each row with a polarity code of the input format, 1 or 2, and a
\* text that is a string
MaxRowsA == 2
MaxRowsB == 1

\* create_single_excel is called with max_rows in 1..MaxRowsArg
MaxRowsArg == 2

----------------------------------------------------------------------------
(* Characters and strings *)

UpperCase == <<"A","B","C","D","E","F","G","H","I","J","K","L","M",
               "N","O","P","Q","R","S","T","U","V","W","X","Y","Z">>
LowerCase == <<"a","b","c","d","e","f","g","h","i","j","k","l","m",
               "n","o","p","q","r","s","t","u","v","w","x","y","z">>
Digits == {"0","1","2","3","4","5","6","7","8","9"}

Range(s) == {s[i] : i \in 1..Len(s)}

\* re.IGNORECASE / case=False: characters are compared after case folding
CaseFold ==
    [c \in Range(UpperCase) |-> LowerCase[CHOOSE i \in 1..Len(UpperCase) : UpperCase[i] = c]]

Lower(c) == IF c \in DOMAIN CaseFold THEN CaseFold[c] ELSE c

\* the characters \w matches
WordChars == Range(UpperCase) \cup Range(LowerCase) \cup Digits \cup {"_"}
IsWordChar(c) == c \in WordChars

\* sep.join(strings)
RECURSIVE join(_, _)
join(sep, strings) ==
    IF strings = <<>> THEN <<>>
    ELSE IF Len(strings) = 1 THEN strings[1]
    ELSE strings[1] \o sep \o join(sep, Tail(strings))

\* pattern.split('|') as the regex parser reads a pattern with no groups:
\* the alternatives of the top-level alternation
RECURSIVE alternatives(_, _)
alternatives(pattern, current) ==
    IF pattern = <<>> THEN <<current>>
    ELSE IF Head(pattern) = "|" THEN <<current>> \o alternatives(Tail(pattern), <<>>)
    ELSE alternatives(Tail(pattern), Append(current, Head(pattern)))

\* one pattern atom against one character, ignoring case: '.' matches any
\* character but a newline, any other atom of the modelled alphabet is a literal
atom_matches(atom, c) ==
    IF atom = "." THEN c # "\n" ELSE Lower(atom) = Lower(c)

\* the alternative matches text at position p
matches_at(alt, text, p) ==
    /\ p + Len(alt) - 1 <= Len(text)
    /\ \A i \in 1..Len(alt) : atom_matches(alt[i], text[p + i - 1])

\* re_search with an empty alternative finding nothing
re_search_nonempty(pattern, text) ==
    LET alts == alternatives(pattern, <<>>)
    IN \E a \in 1..Len(alts) :
          /\ alts[a] # <<>>
          /\ \E p \in 1..(Len(text) + 1) : matches_at(alts[a], text, p)

\* re.search(pattern, text, re.IGNORECASE) is not None
re_search(pattern, text) ==
    LET alts == alternatives(pattern, <<>>)
    IN \E a \in 1..Len(alts) : \E p \in 1..(Len(text) + 1) : matches_at(alts[a], text, p)

\* the positions 1..n of a sequence, in order
positions(n) == [i \in 1..n |-> i]

\* re.findall(r'\w+', text): the maximal runs of word characters, left to right
findall_words(text) ==
    LET n == Len(text)
        begin == SelectSeq(positions(n),
                     LAMBDA i : IsWordChar(text[i]) /\ (i = 1 \/ ~IsWordChar(text[i - 1])))
        end == SelectSeq(positions(n),
                     LAMBDA i : IsWordChar(text[i]) /\ (i = n \/ ~IsWordChar(text[i + 1])))
    IN [k \in 1..Len(begin) |-> SubSeq(text, begin[k], end[k])]

----------------------------------------------------------------------------
(* The inputs: the rows a CSV file may hold, the words a user may enter, the *)
(* lexical database                                                         *)

\* sentiment_mapping = {'positive': 2, 'negative': 1}
sentiment_mapping == [positive |-> 2, negative |-> 1]

\* "dry": holds no lemma of "doc", but the pattern Dr. matches it
TextDry == <<"d","r","y">>
\* "ok": nothing of "doc" matches it
TextOk == <<"o","k">>
\* "Doc doc a b c d e f g h i j k l m n o p q r s t t": 22 distinct tokens
TextLong == <<"D","o","c"," ","d","o","c"," ","a"," ","b"," ","c"," ","d"," ","e"," ",
              "f"," ","g"," ","h"," ","i"," ","j"," ","k"," ","l"," ","m"," ","n"," ",
              "o"," ","p"," ","q"," ","r"," ","s"," ","t"," ","t">>

CsvRows == {
    <<sentiment_mapping.positive, "Slow", TextDry>>,
    <<sentiment_mapping.negative, "Fine", TextOk>>,
    <<sentiment_mapping.negative, "Long", TextLong>> }

SeqsUpTo(S, n) == UNION {[1..k -> S] : k \in 1..n}

WordEmpty == <<>>
WordDoc == <<"d","o","c">>
WordUnknown == <<"z","z">>
SearchWords == {WordEmpty, WordDoc, WordUnknown}

\* wordnet.synsets(word): the lemma names of each sense of the word
\* (doc: Department_of_Commerce.n.01 with lemma DoC, doctor.n.01 with
\* lemmas doc and Dr.)
synsets(word) ==
    IF word = WordDoc
    THEN << << <<"D","o","C">> >>,
            << <<"d","o","c">>, <<"D","r",".">> >> >>
    ELSE <<>>

\* st.sidebar.radio('Sentiment Type', ('positive', 'negative'))
Sentiments == {"positive", "negative"}

----------------------------------------------------------------------------
(* The pipeline functions *)

\* pd.read_csv(file_path, names=["polarity", "title", "text"]): one row per
\* line, labelled 0, 1, ... within the file
read_csv(file) ==
    [i \in 1..Len(file) |->
        [index |-> i - 1, polarity |-> file[i][1], title |-> file[i][2], text |-> file[i][3]]]

\* pd.concat(data_frames): the frames one after the other, labels kept
RECURSIVE concat(_)
concat(frames) ==
    IF frames = <<>> THEN <<>> ELSE Head(frames) \o concat(Tail(frames))

load_data(files) == concat([f \in 1..Len(files) |-> read_csv(files[f])])

\* data[mask]: the rows whose mask is true, in order
select(data, mask) ==
    LET kept == SelectSeq(positions(Len(data)), LAMBDA i : mask[i])
    IN [k \in 1..Len(kept) |-> data[kept[k]]]

\* filter_data_by_sentiment comparing with >= in place of ==
filter_at_least(data, sentiment) ==
    select(data, [i \in 1..Len(data) |-> data[i].polarity >= sentiment_mapping[sentiment]])

\* filter_data_by_sentiment with the mask one row out of line
filter_mask_shifted(data, sentiment) ==
    select(data, [i \in 1..Len(data) |->
                     i < Len(data) /\ data[i + 1].polarity = sentiment_mapping[sentiment]])

filter_data_by_sentiment(data, sentiment) ==
    select(data, [i \in 1..Len(data) |-> data[i].polarity = sentiment_mapping[sentiment]])

\* [lemma.name() for syn in wordnet.synsets(search_word) for lemma in syn.lemmas()]
lemma_names(word) == concat(synsets(word))

\* data['text'].str.contains(pat, case=False): the mask of the rows whose text
\* the regular expression pat is found in
str_contains(data, pat) == [i \in 1..Len(data) |-> re_search(pat, data[i].text)]

\* find_similar_words lowering the text column before it searches
find_similar_words_lowered(data, search_word, installed) ==
    IF search_word = <<>>
    THEN [raised |-> "", data |-> data, synonyms |-> <<>>]
    ELSE IF ~installed
    THEN [raised |-> "LookupError", data |-> <<>>, synonyms |-> <<>>]
    ELSE LET synonyms == lemma_names(search_word)
             lowered == [i \in 1..Len(data) |->
                            [data[i] EXCEPT !.text = [k \in 1..Len(@) |-> Lower(@[k])]]]
         IN [raised |-> "",
             data |-> select(lowered, str_contains(lowered, join(<<"|">>, synonyms))),
             synonyms |-> synonyms]

\* the outcome of find_similar_words: what it raised ("" when it returned),
\* and the pair it returned
find_similar_words(data, search_word, installed) ==
    IF search_word = <<>>
    THEN [raised |-> "", data |-> data, synonyms |-> <<>>]
    ELSE IF ~installed
    THEN [raised |-> "LookupError", data |-> <<>>, synonyms |-> <<>>]
    ELSE LET synonyms == lemma_names(search_word)
         IN [raised |-> "",
             data |-> select(data, str_contains(data, join(<<"|">>, synonyms))),
             synonyms |-> synonyms]

\* data['text'].str.cat(sep=' ')
str_cat(data) == join(<<" ">>, [i \in 1..Len(data) |-> data[i].text])

\* Counter(words).items(): each distinct word with its count, in the order
\* the words are first seen (a dict keeps insertion order)
counter_items(words) ==
    LET occurrences(w) == {i \in 1..Len(words) : words[i] = w}
        first(w) == CHOOSE i \in occurrences(w) : \A j \in occurrences(w) : i <= j
        firsts == {first(w) : w \in Range(words)}
        order == SelectSeq(positions(Len(words)), LAMBDA i : i \in firsts)
    IN [k \in 1..Len(order) |->
           [word |-> words[order[k]], count |-> Cardinality(occurrences(words[order[k]]))]]

\* the elements of a sequence, last first
reversed(seq) == [k \in 1..Len(seq) |-> seq[Len(seq) + 1 - k]]

\* sorted_by_count as sorted(items, key=count)[::-1] would give it: equal
\* counts come out last-seen first
RECURSIVE sorted_ascending_reversed(_, _)
sorted_ascending_reversed(items, count) ==
    IF count = 0 THEN <<>>
    ELSE reversed(SelectSeq(items, LAMBDA item : item.count = count))
            \o sorted_ascending_reversed(items, count - 1)

\* sorted(items, key=count, reverse=True): the sort is stable, so the items
\* of each count, from the highest count down, in the order they stand
RECURSIVE sorted_by_count(_, _)
sorted_by_count(items, count) ==
    IF count = 0 THEN <<>>
    ELSE SelectSeq(items, LAMBDA item : item.count = count) \o sorted_by_count(items, count - 1)

\* word_count.most_common(20)
most_common_n == 20

most_common(words) ==
    LET items == SelectSeq(counter_items(words), LAMBDA item : TRUE)
        sorted == sorted_by_count(items, Len(words))
    IN SubSeq(sorted, 1, IF Len(sorted) < most_common_n THEN Len(sorted) ELSE most_common_n)

\* [word for word, count in common_words]
generate_word_cloud(data) ==
    LET common_words == most_common(findall_words(str_cat(data)))
    IN [k \in 1..Len(common_words) |-> common_words[k].word]

\* chunk_data.to_excel(file_path, index=False): the columns without the labels
to_excel(data) ==
    [i \in 1..Len(data) |->
        [polarity |-> data[i].polarity, title |-> data[i].title, text |-> data[i].text]]

\* chunk_size = 750000 in the source, and max_rows defaults to 250000. The
\* model counts rows on a smaller scale, so that tables of a few rows cross
\* both: the loop depends on len(data), chunk_size and max_rows only through
\* range(0, len(data), chunk_size) and len(chunk_data) > max_rows.
chunk_size == 2

\* f'data_part_{i // chunk_size + 1}.xlsx'
file_name(i) == <<"data_part_", i \div chunk_size + 1, ".xlsx">>

\* os.path.join(temp_dir, file_name)
path_join(dir, name) == <<dir, name>>

\* range(0, len(data), chunk_size)
chunk_starts(n) == [k \in 1..((n + chunk_size - 1) \div chunk_size) |-> (k - 1) * chunk_size]

\* data.iloc[i:j], positions counted from 0, j exclusive
iloc(data, i, j) == SubSeq(data, i + 1, IF j < Len(data) THEN j ELSE Len(data))

\* one pass of the loop body of create_single_excel: the file it writes
export_chunk(data, i, max_rows) ==
    LET chunk_data == iloc(data, i, i + chunk_size)
        capped == IF Len(chunk_data) > max_rows THEN iloc(chunk_data, 0, max_rows) ELSE chunk_data
    IN [name |-> file_name(i), rows |-> to_excel(capped)]

\* create_single_excel of app.py: the files written, in the order written
create_single_excel(data, max_rows) ==
    LET starts == chunk_starts(Len(data))
    IN [k \in 1..Len(starts) |-> export_chunk(data, starts[k], max_rows)]

\* a directory after a file is written into it (a file of that name is replaced)
write_file(files, file) == {f \in files : f.name # file.name} \cup {file}

RECURSIVE write_files(_, _)
write_files(files, written) ==
    IF written = <<>> THEN files
    ELSE write_files(write_file(files, Head(written)), Tail(written))

\* clean_temp_files without the os.path.exists test
clean_temp_files_unguarded(exists, files) ==
    IF exists
    THEN [raised |-> "", exists |-> FALSE, files |-> {}]
    ELSE [raised |-> "FileNotFoundError", exists |-> exists, files |-> files]

\* clean_temp_files: the directory afterwards, and what the call raised
clean_temp_files(exists, files) ==
    IF exists
    THEN [raised |-> "", exists |-> FALSE, files |-> {}]
    ELSE [raised |-> "", exists |-> exists, files |-> files]

\* create_single_excel of test.py: the whole table in the one file data.xlsx
test_create_single_excel(data) == [name |-> <<"data", ".xlsx">>, rows |-> to_excel(data)]

----------------------------------------------------------------------------
(* The state machine *)

\* a call record before its fields are filled in
NoCall ==
    [op |-> "", data |-> <<>>, sentiment |-> "", word |-> <<>>, max_rows |-> 0,
     wordnet_installed |-> TRUE, dir_existed |-> FALSE, raised |-> "", table |-> <<>>, synonyms |-> <<>>,
     common_words |-> <<>>, file_paths |-> <<>>]

Init ==
    /\ csv_files \in {<<a, b>> : a \in SeqsUpTo(CsvRows, MaxRowsA), b \in SeqsUpTo(CsvRows, MaxRowsB)}
    /\ session_state = [k \in {} |-> <<>>]
    /\ temp_dir_exists = FALSE
    /\ temp_files = {}
    /\ last = NoCall

\* main, first run of the script: 'loaded_data' not in st.session_state
FirstRun ==
    /\ "loaded_data" \notin DOMAIN session_state
    /\ session_state' = ("loaded_data" :> load_data(csv_files)) @@ session_state
    /\ last' = [NoCall EXCEPT !.op = "load_data",
                               !.table = load_data(csv_files)]
    /\ UNCHANGED <<csv_files, temp_dir_exists, temp_files>>

\* main, a run with the button 'Filter Data' pressed
FilterData(sentiment) ==
    /\ "loaded_data" \in DOMAIN session_state
    /\ LET data == session_state["loaded_data"]      \* .copy()
           filtered == filter_data_by_sentiment(data, sentiment)
       IN /\ session_state' = ("filtered_data" :> filtered) @@ session_state
          /\ last' = [NoCall EXCEPT !.op = "filter_data_by_sentiment",
                                     !.data = data,
                                     !.sentiment = sentiment,
                                     !.table = filtered]
    /\ UNCHANGED <<csv_files, temp_dir_exists, temp_files>>

\* 'filtered_data' in st.session_state and not st.session_state.filtered_data.empty
HasFilteredRows ==
    /\ "filtered_data" \in DOMAIN session_state
    /\ session_state["filtered_data"] # <<>>

\* main, a run with the button 'Export to Excel' pressed
ExportToExcel ==
    /\ HasFilteredRows
    /\ LET data == session_state["filtered_data"]
           file == test_create_single_excel(data)
       IN /\ temp_dir_exists' = TRUE             \* os.makedirs(temp_dir, exist_ok=True)
          /\ temp_files' = write_file(temp_files, file)
          /\ last' = [NoCall EXCEPT !.op = "test_create_single_excel",
                                     !.data = data,
                                     !.dir_existed = temp_dir_exists,
                                     !.file_paths = <<path_join("temp_excel", file.name)>>]
    /\ UNCHANGED <<csv_files, session_state>>

\* main, a run with the button 'Find Similar Words' pressed: the search and,
\* when it found synonyms, the word cloud of its result. An exception ends
\* the run before the assignment to st.session_state.
\* wordnet_installed: whether the NLTK WordNet corpus can be opened when the
\* call looks the word up.
FindSimilarWords(search_word, wordnet_installed) ==
    /\ HasFilteredRows
    /\ LET data == session_state["filtered_data"]
           found == find_similar_words(data, search_word, wordnet_installed)
           call == [NoCall EXCEPT !.op = "find_similar_words",
                                  !.data = data,
                                  !.word = search_word,
                                  !.wordnet_installed = wordnet_installed,
                                  !.raised = found.raised]
       IN IF found.raised # ""
          THEN /\ last' = call
               /\ UNCHANGED session_state
          ELSE /\ session_state' = [session_state EXCEPT !["filtered_data"] = found.data]
               /\ last' = [call EXCEPT !.table = found.data,
                                        !.synonyms = found.synonyms,
                                        !.common_words =
                                            IF found.synonyms # <<>>
                                            THEN generate_word_cloud(found.data)
                                            ELSE <<>>]
    /\ UNCHANGED <<csv_files, temp_dir_exists, temp_files>>

\* create_single_excel of app.py on the session's current table
CreateSingleExcel(max_rows) ==
    /\ "filtered_data" \in DOMAIN session_state
    /\ LET data == session_state["filtered_data"]
           written == create_single_excel(data, max_rows)
       IN /\ temp_dir_exists' = TRUE             \* os.makedirs(temp_dir, exist_ok=True)
          /\ temp_files' = write_files(temp_files, written)
          /\ last' = [NoCall EXCEPT !.op = "create_single_excel",
                                     !.data = data,
                                     !.max_rows = max_rows,
                                     !.dir_existed = temp_dir_exists,
                                     !.file_paths =
                                         [k \in 1..Len(written) |->
                                             path_join("temp_excel", written[k].name)]]
    /\ UNCHANGED <<csv_files, session_state>>

\* clean_temp_files of app.py
CleanTempFiles ==
    /\ LET cleaned == clean_temp_files(temp_dir_exists, temp_files)
       IN /\ temp_dir_exists' = cleaned.exists
          /\ temp_files' = cleaned.files
          /\ last' = [NoCall EXCEPT !.op = "clean_temp_files",
                                     !.dir_existed = temp_dir_exists,
                                     !.raised = cleaned.raised]
    /\ UNCHANGED <<csv_files, session_state>>

\* the Streamlit session of test.py
Next ==
    \/ FirstRun
    \/ \E sentiment \in Sentiments : FilterData(sentiment)
    \/ ExportToExcel
    \/ \E search_word \in SearchWords, wordnet_installed \in BOOLEAN :
          FindSimilarWords(search_word, wordnet_installed)

Spec == Init /\ [][Next]_vars

\* the export functions of app.py, called on the tables a session holds
NextExport ==
    \/ FirstRun
    \/ \E sentiment \in Sentiments : FilterData(sentiment)
    \/ \E max_rows \in 1..MaxRowsArg : CreateSingleExcel(max_rows)
    \/ CleanTempFiles

ExportSpec == Init /\ [][NextExport]_vars

----------------------------------------------------------------------------
(* Properties *)

\* the rows of the file at a path of temp_excel, as a reader finds them
rows_at(path) == (CHOOSE f \in temp_files : f.name = path[2]).rows

\* the rows of the files at the paths, one file after the other
rows_of(paths) == concat([k \in 1..Len(paths) |-> rows_at(paths[k])])

Exported == last.op = "create_single_excel"

\* C1: the files create_single_excel returns, read back in the order of the
\* returned paths, hold the rows of the table it was given: none dropped,
\* none duplicated, none out of place.
C1_ExportReproducesTable ==
    Exported => rows_of(last.file_paths) = to_excel(last.data)

\* C2: for n rows and max_rows m >= 1, create_single_excel returns ceil(n/m)
\* paths data_part_1 .. data_part_k in order; every file holds at most m rows
\* and every file but the last exactly m.
C2_ChunkCountAndSizes ==
    Exported =>
        LET n == Len(last.data)
            m == last.max_rows
            paths == last.file_paths
        IN /\ Len(paths) = (n + m - 1) \div m
           /\ \A k \in 1..Len(paths) :
                 /\ paths[k] = <<"temp_excel", <<"data_part_", k, ".xlsx">> >>
                 /\ Len(rows_at(paths[k])) <= m
                 /\ k < Len(paths) => Len(rows_at(paths[k])) = m

\* the text holds the term as a substring, letter case ignored
contains_literal(text, term) ==
    \E p \in 1..(Len(text) - Len(term) + 1) :
        \A i \in 1..Len(term) : Lower(text[p + i - 1]) = Lower(term[i])

Searched == last.op = "find_similar_words"

\* C3: with a non-empty synonym list, find_similar_words returns, without
\* raising, the rows whose text holds at least one synonym as a literal
\* substring, letter case ignored, in their original order.
C3_LiteralSubstringSearch ==
    (Searched /\ lemma_names(last.word) # <<>> /\ last.wordnet_installed) =>
        /\ last.raised = ""
        /\ last.table = SelectSeq(last.data,
                LAMBDA row : \E k \in 1..Len(last.synonyms) :
                                contains_literal(row.text, last.synonyms[k]))

\* C4: when the synonym list is empty (no query word, or a word without
\* synonyms), find_similar_words returns the table it was given, and the
\* session's filtered table stays what it was.
C4_EmptySynonymsKeepTable ==
    (Searched /\ last.raised = "" /\ last.synonyms = <<>>) =>
        /\ last.table = last.data
        /\ session_state["filtered_data"] = last.data

C4_Witness ==
    /\ Searched /\ last.raised = "" /\ last.synonyms = <<>>
    /\ last.word = WordUnknown
    /\ Len(last.data) >= 2

Filtered == last.op = "filter_data_by_sentiment"

other_sentiment(sentiment) == CHOOSE s \in Sentiments : s # sentiment

\* C5: the positive and the negative filter of a loaded table share no row,
\* and their lengths add up to the length of the table: every row is in
\* exactly one of the two.
C5_FilterPartitions ==
    Filtered =>
        LET mine == last.table
            others == filter_data_by_sentiment(last.data, other_sentiment(last.sentiment))
        IN /\ last.data = session_state["loaded_data"]
           /\ Range(mine) \cap Range(others) = {}
           /\ Len(mine) + Len(others) = Len(last.data)
           /\ \A i \in 1..Len(last.data) :
                 (last.data[i] \in Range(mine)) # (last.data[i] \in Range(others))

C5_Witness ==
    /\ Filtered
    /\ last.table # <<>>
    /\ Len(last.table) < Len(last.data)

\* C6: find_similar_words never raises: when WordNet cannot be opened or the
\* word is unknown, it returns with the empty synonym list.
C6_LookupNeverRaises ==
    Searched =>
        /\ last.raised = ""
        /\ (~last.wordnet_installed \/ synsets(last.word) = <<>>) => last.synonyms = <<>>

\* the word cloud is computed when the search returned synonyms
CloudRan == Searched /\ last.raised = "" /\ last.synonyms # <<>>

\* a sequence with every element computed
as_list(s) == SubSeq(s, 1, Len(s))

\* C7: generate_word_cloud returns at most 20 distinct tokens of the joined
\* texts, by count descending, equal counts in the order the tokens first
\* occur; no token left out has a higher count than a returned one, tokens
\* are left out only when 20 are returned, and an empty table gives the
\* empty list.
C7_WordCloudTopTwenty ==
    CloudRan =>
        LET words == as_list(findall_words(str_cat(last.table)))
            cloud == last.common_words
            count(w) == Cardinality({i \in 1..Len(words) : words[i] = w})
            first(w) == CHOOSE i \in 1..Len(words) :
                            words[i] = w /\ \A j \in 1..(i - 1) : words[j] # w
            counts == as_list([k \in 1..Len(cloud) |-> count(cloud[k])])
            firsts == as_list([k \in 1..Len(cloud) |-> first(cloud[k])])
        IN /\ Len(cloud) <= 20
           /\ \A k \in 1..Len(cloud) : cloud[k] \in Range(words)
           /\ \A i, j \in 1..Len(cloud) :
                 i < j => /\ cloud[i] # cloud[j]
                          /\ \/ counts[i] > counts[j]
                             \/ counts[i] = counts[j] /\ firsts[i] < firsts[j]
           /\ \A w \in Range(words) \ Range(cloud) :
                 /\ Len(cloud) = 20
                 /\ \A k \in 1..Len(cloud) : count(w) <= counts[k]
           /\ last.table = <<>> => cloud = <<>>

C7_Witness ==
    /\ CloudRan
    /\ Len(last.common_words) = 20
    /\ Range(findall_words(str_cat(last.table))) \ Range(last.common_words) # {}

\* s is t with some rows left out: same rows, same order
RECURSIVE is_subsequence(_, _)
is_subsequence(s, t) ==
    IF s = <<>> THEN TRUE
    ELSE IF t = <<>> THEN FALSE
    ELSE IF Head(s) = Head(t) THEN is_subsequence(Tail(s), Tail(t))
    ELSE is_subsequence(s, Tail(t))

\* C8: the session's filtered table is the loaded table with rows left out,
\* the rest unchanged and in order, and the loaded table stays the table
\* that was loaded.
C8_FilteredIsSubsequenceOfLoaded ==
    "loaded_data" \in DOMAIN session_state =>
        /\ session_state["loaded_data"] = load_data(csv_files)
        /\ "filtered_data" \in DOMAIN session_state =>
               is_subsequence(session_state["filtered_data"], session_state["loaded_data"])

C8_Witness ==
    /\ Searched /\ last.raised = "" /\ last.synonyms # <<>>
    /\ session_state["filtered_data"] # <<>>
    /\ Len(session_state["filtered_data"]) < Len(last.data)
    /\ Len(last.data) < Len(session_state["loaded_data"])

\* C9: filtering a filtered table again by the same sentiment gives the
\* same table.
C9_FilterIdempotent ==
    Filtered =>
        filter_data_by_sentiment(last.table, last.sentiment) = last.table

C9_Witness ==
    /\ Filtered
    /\ Len(last.table) >= 2
    /\ Len(last.table) < Len(last.data)

\* C10: clean_temp_files never raises; after it temp_excel and its files
\* are gone (nothing changes when there was no directory), and a
\* create_single_excel that finds no directory leaves exactly the files it
\* returns.
C10_CleanupIsSafe ==
    /\ ~temp_dir_exists => temp_files = {}
    /\ last.op = "clean_temp_files" =>
           /\ last.raised = ""
           /\ ~temp_dir_exists
           /\ temp_files = {}
    /\ (Exported /\ ~last.dir_existed) =>
           {f.name : f \in temp_files} = {last.file_paths[k][2] : k \in 1..Len(last.file_paths)}

C10_Witness ==
    /\ last.op = "clean_temp_files"
    /\ ~last.dir_existed

====
